---- MODULE Spec2Model ----
(***************************************************************************)
(* Model of the proxy coordinator of src/proxy/proxy.go: construction      *)
(* (NewProxy), the four timer loops (clean, refresh, check, state update), *)
(* the notification endpoint (Start), upstream selection (checkUpstreams), *)
(* the block-template cache and the failure counter, with the users of its *)
(* fields that live in other files: the template fetch, the sessions' side *)
(* of the WorkDiff map, the session registry and the broadcast.            *)
(*                                                                         *)
(* Go indices are 0-based; the sequence upstreams is 1-based, so the       *)
(* client with Go index i is upstreams[i + 1].                             *)
(***************************************************************************)
EXTENDS Integers, Sequences, FiniteSets, TLC

\* ------------------------------------------------------------------ bounds

\* Largest number of configured upstreams.
MaxUpstreams == 3
\* Number of concurrently served notification requests (net/http serves each
\* request on a goroutine of its own).
MaxHandlers == 1
\* Number of distinct logins that own a WorkDiff entry.
NumLogins == 2
\* Cap of the failure counter: a failure is taken only below it.
MaxFailsCount == 3
\* Number of sessions that connect over a run.
MaxSessions == 2

\* ------------------------------------------------------------ value domains

UpstreamNames == <<"A", "B", "C", "D", "E", "F">>
Logins == 1..NumLogins
Handlers == 1..MaxHandlers
Methods == {"POST", "GET", "PUT"}
Protocols == {"Stratum-Proxy", "EthereumStratum", "Other"}
\* cfg.Proxy.Stratum.MinDiffFloat in hundredths: 0.05 and 0.10.
MinDiffValues == {5, 10}
MaxFailsValues == {-1, 0, 2}
DiffValues == {4, 8}
SessionIds == 1..MaxSessions

\* A BlockTemplate is a complete record; NoTemplate stands for the nil pointer.
NoTemplate == [Height |-> 0, Difficulty |-> 0]
Templates == {[Height |-> 1, Difficulty |-> 10], [Height |-> 2, Difficulty |-> 20]}
\* What a template fetch (the upstream RPC) can come back with.
FetchErr == [Height |-> -1, Difficulty |-> -1]
Replies == Templates \cup {FetchErr}

Configs ==
    [Name : {"", "pool"},
     Protocol : Protocols,
     StratumEnabled : BOOLEAN,
     MinDiffFloat : MinDiffValues,
     NumUpstream : 0..MaxUpstreams,
     HealthCheck : BOOLEAN,
     MaxFails : MaxFailsValues]

\* ------------------------------------------------------------------- state

VARIABLES
    phase,          \* "new" | "running" | "fatal" | "panic": where NewProxy got to
    config,         \* cfg *Config
    listener,       \* stratum listener goroutine started by NewProxy
    initFetch,      \* outcome of the fetch of line 116: "none" | "err" | "ok"
    upstreams,      \* s.upstreams, the clients' names
    upstream,       \* s.upstream, the active index (0-based)
    blockTemplate,  \* s.blockTemplate
    failsCount,     \* s.failsCount
    workDiff,       \* s.workDiff: login -> WorkDiff
    timerIntv,      \* per timer, the interval it is armed with, "" while it is not
    pc,             \* per timer loop: "none" | "wait" | a place in its body
    candidate,      \* checkUpstreams: candidate
    backup,         \* checkUpstreams: backup
    probes,         \* checkUpstreams: what Check() returned, in call order
    switchLog,      \* checkUpstreams: the "Switching to ..." line of the sweep
    suT,            \* state-update loop: t
    suErr,          \* state-update loop: what the last tick came to: "none" |
                    \* "skipped" (no template, no write) | "err" | "ok"
    writeArgs,      \* arguments of the WriteNodeState call under way
    fetching,       \* per fetcher, whether its fetchBlockTemplate() is running
    fetchRpc,       \* the client the fetch started last runs on
    handler,        \* per handler, the request being served / last response
    consecFails,    \* history: failures since the last success of either kind
    fetchFails,     \* history: failed fetches since the last successful fetch
    lastStored,     \* history: template of the last successful fetch to land
    age,            \* history: per login, sweeps since it was last marked/reclaimed
    workMu,         \* s.workMu: "free" | "session" (held outside the clean loop)
    track,          \* history: per login, the marking no one touched since
    sessions,       \* s.sessions, the registered sessions
    sessionsMu,     \* s.sessionsMu: "free" | "read" (the broadcast's RLock)
    bc,             \* the broadcast under way: its place, snapshot and writes
    joined          \* history: per session, added "never" | "before" | "after" the snapshot

vars == <<phase, config, listener, initFetch, upstreams, upstream, blockTemplate,
          failsCount, workDiff, timerIntv, pc, candidate, backup, probes,
          switchLog, suT, suErr, writeArgs, fetching, fetchRpc, handler,
          consecFails, fetchFails, lastStored, age, workMu, track, sessions,
          sessionsMu, bc, joined>>

Timers == {"clean", "refresh", "check", "stateUpdate"}
\* Who can run fetchBlockTemplate(): 0 is the refresh loop, h > 0 is handler h.
Fetchers == 0..MaxHandlers
NoArgs == [Name |-> "", Height |-> 0, Difficulty |-> 0]
IdleHandler == [pc |-> "idle", method |-> "", status |-> 0, body |-> <<>>]

\* No marking is followed for the login.
NoMark == [sweeps |-> -1, Difficulty |-> 0]
\* No broadcast is under way.
NoBroadcast == [pc |-> "idle", snapshot |-> {}, written |-> {}]

Min(a, b) == IF a < b THEN a ELSE b


\* ------------------------------------------------------- small operations

\* 0.1, the least minimum difficulty of EthereumStratum, in hundredths.
MinDiffLimit == 10

\* rpc(): the client at the active index.
rpc == upstreams[upstream + 1]

\* Variant: the nil test is inverted, so a stored template is never returned.
currentBlockTemplateInverted ==
    IF blockTemplate # NoTemplate THEN NoTemplate ELSE blockTemplate

\* currentBlockTemplate(): one atomic load of the cache; nil while nothing is stored.
currentBlockTemplate == IF blockTemplate # NoTemplate THEN blockTemplate ELSE NoTemplate

\* Variant: a failure stores 1 in the place of adding 1.
markSickStore(n) == 1

\* markSick(): atomic add of 1.
markSick(n) == n + 1

\* markOk(): atomic store of 0.
markOk == 0

\* Variant: the HealthCheck switch is not looked at.
isSickUnconditional == failsCount >= config.MaxFails

\* Variant: the comparison with MaxFails is strict.
isSickStrict == config.HealthCheck /\ failsCount > config.MaxFails

\* isSick()
isSick == config.HealthCheck /\ failsCount >= config.MaxFails

\* fetchBlockTemplate() lives outside proxy.go. After the design document
\* (sections 4.2 and 7): it calls the active upstream; a reply replaces the cache
\* in one atomic store and marks the server ok, an error increments the failure
\* counter and leaves the cache as it is.
FetchCanLand(reply) == reply = FetchErr => failsCount < MaxFailsCount

FetchLands(reply) ==
    /\ blockTemplate' = IF reply = FetchErr THEN blockTemplate ELSE reply
    /\ failsCount' = IF reply = FetchErr THEN markSick(failsCount) ELSE markOk
    /\ consecFails' = IF reply = FetchErr THEN consecFails + 1 ELSE 0
    /\ fetchFails' = IF reply = FetchErr THEN Min(fetchFails + 1, MaxFailsCount) ELSE 0
    /\ lastStored' = IF reply = FetchErr THEN lastStored ELSE reply

\* ------------------------------------------------------------ construction

\* Variant: the check of the instance name is missing.
NameUnchecked(cfg) == TRUE

\* len(cfg.Name) == 0 is fatal.
NameSet(cfg) == cfg.Name # ""

MinDiffAllowed(cfg) ==
    ~(cfg.MinDiffFloat < MinDiffLimit /\ cfg.Protocol = "EthereumStratum")

HasUpstream(cfg) == cfg.NumUpstream > 0

StratumConfigured(cfg) ==
    cfg.StratumEnabled /\ cfg.Protocol \in {"Stratum-Proxy", "EthereumStratum"}

MakeUpstreams(cfg) == [i \in 1..cfg.NumUpstream |-> UpstreamNames[i]]

NewTimers ==
    [t \in Timers |->
        CASE t = "clean" -> "cleanIntv"
          [] t = "refresh" -> "refreshIntv"
          [] t = "check" -> "checkIntv"
          [] OTHER -> "stateUpdateIntv"]

\* NewProxy(cfg, backend): the checks in the order of the code, the first fetch,
\* then the four timers and their loops.  log.Fatal ends the process; indexing the
\* empty upstream list in rpc() (line 99) panics.
NewProxy(reply) ==
    /\ phase = "new"
    /\ FetchCanLand(reply)
    /\ IF ~NameSet(config)
       THEN /\ phase' = "fatal"
            /\ UNCHANGED <<upstreams, listener, initFetch, blockTemplate, failsCount,
                           consecFails, fetchFails, lastStored, timerIntv, pc,
                           fetchRpc>>
       ELSE IF ~MinDiffAllowed(config)
       THEN /\ phase' = "fatal"
            /\ UNCHANGED <<upstreams, listener, initFetch, blockTemplate, failsCount,
                           consecFails, fetchFails, lastStored, timerIntv, pc,
                           fetchRpc>>
       ELSE IF ~HasUpstream(config)
       THEN /\ phase' = "panic"
            /\ upstreams' = MakeUpstreams(config)
            /\ UNCHANGED <<listener, initFetch, blockTemplate, failsCount,
                           consecFails, fetchFails, lastStored, timerIntv, pc,
                           fetchRpc>>
       ELSE IF ~StratumConfigured(config)
       THEN /\ phase' = "fatal"
            /\ upstreams' = MakeUpstreams(config)
            /\ UNCHANGED <<listener, initFetch, blockTemplate, failsCount,
                           consecFails, fetchFails, lastStored, timerIntv, pc,
                           fetchRpc>>
       ELSE /\ phase' = "running"
            /\ upstreams' = MakeUpstreams(config)
            /\ listener' = IF config.Protocol = "Stratum-Proxy" THEN "ListenSP"
                                                                ELSE "ListenES"
            /\ FetchLands(reply)
            /\ fetchRpc' = MakeUpstreams(config)[upstream + 1]
            /\ initFetch' = IF reply = FetchErr THEN "err" ELSE "ok"
            /\ timerIntv' = NewTimers
            /\ pc' = [t \in Timers |-> "wait"]
    /\ UNCHANGED <<config, upstream, workDiff, candidate, backup, probes, switchLog,
                   suT, suErr, writeArgs, fetching, handler, age,
                   workMu, track, sessions, sessionsMu, bc, joined>>

\* ------------------------------------------------------------- clean loop

\* Variant: no grace period, a marked entry is deleted by the next sweep.
CleanDeletesAtOnce(v) == v.IsDel

\* Variant: the sweep deletes nothing.
CleanDeletesNever(v) == FALSE

\* The body of the sweep for one entry: TRUE when the entry is deleted.
CleanDeletes(v) == v.IsDel /\ ~v.PassDel

\* Variant: the first sweep takes the whole marking back.
CleanKeepsUnmarks(v) ==
    IF v.IsDel THEN [v EXCEPT !.PassDel = FALSE, !.IsDel = FALSE] ELSE v

\* ... and what the sweep leaves of an entry it keeps.
CleanKeeps(v) == IF v.IsDel THEN [v EXCEPT !.PassDel = FALSE] ELSE v

CleanSweep(wd) ==
    [k \in {x \in DOMAIN wd : ~CleanDeletes(wd[x])} |-> CleanKeeps(wd[k])]

\* Variant: the clean timer is re-armed with its own interval.
CleanResetOwnIntv == "cleanIntv"

\* cleanTimer.Reset(refreshIntv): the interval the clean timer is re-armed with.
CleanResetIntv == "refreshIntv"

\* case <-cleanTimer.C: the tick is received, the loop is at workMu.Lock().
CleanTick ==
    /\ phase = "running"
    /\ pc["clean"] = "wait"
    /\ pc' = [pc EXCEPT !["clean"] = "lock"]
    /\ timerIntv' = [timerIntv EXCEPT !["clean"] = ""]
    /\ UNCHANGED <<phase, config, listener, initFetch, upstreams, upstream,
                   blockTemplate, failsCount, workDiff, candidate, backup, probes,
                   switchLog, suT, suErr, writeArgs, fetching, fetchRpc, handler,
                   consecFails, fetchFails, lastStored, age,
                   workMu, track, sessions, sessionsMu, bc, joined>>

\* workMu.Lock() is granted: the sweep, workMu.Unlock(), then
\* cleanTimer.Reset(refreshIntv).
CleanLocked ==
    /\ pc["clean"] = "lock"
    /\ workMu = "free"
    /\ workDiff' = CleanSweep(workDiff)
    /\ pc' = [pc EXCEPT !["clean"] = "wait"]
    /\ timerIntv' = [timerIntv EXCEPT !["clean"] = CleanResetIntv]
    /\ age' = [k \in Logins |-> IF age[k] < 0 THEN age[k] ELSE Min(age[k] + 1, 2)]
    /\ track' = [k \in Logins |->
                   IF track[k].sweeps < 0 THEN track[k]
                   ELSE [track[k] EXCEPT !.sweeps = Min(track[k].sweeps + 1, 2)]]
    /\ UNCHANGED <<phase, config, listener, initFetch, upstreams, upstream,
                   blockTemplate, failsCount, candidate, backup, probes,
                   switchLog, suT, suErr, writeArgs, fetching, fetchRpc, handler,
                   consecFails, fetchFails, lastStored,
                   workMu, sessions, sessionsMu, bc, joined>>

\* The sessions' side of the WorkDiff map is outside proxy.go.  After the design
\* document (sections 4.4 and 4.8), each under workMu: set stores a difficulty for
\* a login, disconnection marks the entry for deferred deletion, a reconnect that
\* finds the entry takes it back.
SetDifficulty(k, d) ==
    /\ phase = "running"
    /\ workMu = "free"
    /\ track' = [track EXCEPT ![k] = NoMark]
    /\ workDiff' =
         IF k \in DOMAIN workDiff
         THEN [workDiff EXCEPT ![k].Difficulty = d]
         ELSE [x \in DOMAIN workDiff \cup {k} |->
                 IF x = k THEN [Difficulty |-> d, PassDel |-> FALSE, IsDel |-> FALSE]
                          ELSE workDiff[x]]
    /\ UNCHANGED <<phase, config, listener, initFetch, upstreams, upstream,
                   blockTemplate, failsCount, timerIntv, pc, candidate, backup,
                   probes, switchLog, suT, suErr, writeArgs, fetching, fetchRpc, handler,
                   consecFails, fetchFails, lastStored, age,
                   workMu, sessions, sessionsMu, bc, joined>>

MarkForDeletion(k) ==
    /\ phase = "running"
    /\ workMu = "free"
    /\ k \in DOMAIN workDiff
    /\ track' = [track EXCEPT ![k] = [sweeps |-> 0, Difficulty |-> workDiff[k].Difficulty]]
    /\ workDiff' = [workDiff EXCEPT ![k].IsDel = TRUE, ![k].PassDel = TRUE]
    /\ age' = [age EXCEPT ![k] = 0]
    /\ UNCHANGED <<phase, config, listener, initFetch, upstreams, upstream,
                   blockTemplate, failsCount, timerIntv, pc, candidate, backup,
                   probes, switchLog, suT, suErr, writeArgs, fetching, fetchRpc, handler,
                   consecFails, fetchFails, lastStored,
                   workMu, sessions, sessionsMu, bc, joined>>

Reclaim(k) ==
    /\ phase = "running"
    /\ workMu = "free"
    /\ k \in DOMAIN workDiff
    /\ workDiff[k].IsDel
    /\ track' = [track EXCEPT ![k] = NoMark]
    /\ workDiff' = [workDiff EXCEPT ![k].IsDel = FALSE, ![k].PassDel = FALSE]
    /\ age' = [age EXCEPT ![k] = 0]
    /\ UNCHANGED <<phase, config, listener, initFetch, upstreams, upstream,
                   blockTemplate, failsCount, timerIntv, pc, candidate, backup,
                   probes, switchLog, suT, suErr, writeArgs, fetching, fetchRpc, handler,
                   consecFails, fetchFails, lastStored,
                   workMu, sessions, sessionsMu, bc, joined>>

\* Another user of the WorkDiff map holds workMu for a while.
WorkLock ==
    /\ phase = "running"
    /\ workMu = "free"
    /\ workMu' = "session"
    /\ UNCHANGED <<phase, config, listener, initFetch, upstreams, upstream,
                   blockTemplate, failsCount, workDiff, timerIntv, pc, candidate,
                   backup, probes, switchLog, suT, suErr, writeArgs, fetching,
                   fetchRpc, handler, consecFails, fetchFails, lastStored, age,
                   track, sessions, sessionsMu, bc, joined>>

WorkUnlock ==
    /\ workMu = "session"
    /\ workMu' = "free"
    /\ UNCHANGED <<phase, config, listener, initFetch, upstreams, upstream,
                   blockTemplate, failsCount, workDiff, timerIntv, pc, candidate,
                   backup, probes, switchLog, suT, suErr, writeArgs, fetching,
                   fetchRpc, handler, consecFails, fetchFails, lastStored, age,
                   track, sessions, sessionsMu, bc, joined>>

\* ------------------------------------------------------- session registry

\* The registry's operations and the broadcast are outside proxy.go, which has
\* the fields sessionsMu and sessions only.  After the design document (sections
\* 4.3 and 5): add and remove take the write lock of sessionsMu; the broadcast
\* takes the read lock, copies the set, releases the lock, and then writes to the
\* sessions of the copy one by one, each write a blocking call.
RegisterSession(x) ==
    /\ phase = "running"
    /\ joined[x] = "never"
    /\ sessionsMu = "free"
    /\ sessions' = sessions \cup {x}
    /\ joined' = [joined EXCEPT ![x] = IF bc.pc = "write" THEN "after" ELSE "before"]
    /\ UNCHANGED <<phase, config, listener, initFetch, upstreams, upstream,
                   blockTemplate, failsCount, workDiff, timerIntv, pc, candidate,
                   backup, probes, switchLog, suT, suErr, writeArgs, fetching,
                   fetchRpc, handler, consecFails, fetchFails, lastStored, age,
                   workMu, track, sessionsMu, bc>>

RemoveSession(x) ==
    /\ x \in sessions
    /\ sessionsMu = "free"
    /\ sessions' = sessions \ {x}
    /\ UNCHANGED <<phase, config, listener, initFetch, upstreams, upstream,
                   blockTemplate, failsCount, workDiff, timerIntv, pc, candidate,
                   backup, probes, switchLog, suT, suErr, writeArgs, fetching,
                   fetchRpc, handler, consecFails, fetchFails, lastStored, age,
                   workMu, track, sessionsMu, bc, joined>>

\* The broadcast takes the read lock.
BroadcastBegin ==
    /\ phase = "running"
    /\ bc.pc = "idle"
    /\ sessionsMu = "free"
    /\ sessionsMu' = "read"
    /\ bc' = [pc |-> "snapshot", snapshot |-> {}, written |-> {}]
    /\ UNCHANGED <<phase, config, listener, initFetch, upstreams, upstream,
                   blockTemplate, failsCount, workDiff, timerIntv, pc, candidate,
                   backup, probes, switchLog, suT, suErr, writeArgs, fetching,
                   fetchRpc, handler, consecFails, fetchFails, lastStored, age,
                   workMu, track, sessions, joined>>

\* Variant: the read lock is kept while the sessions are written to.
BroadcastSnapshotKeepsLock ==
    /\ bc.pc = "snapshot"
    /\ bc' = [pc |-> "write", snapshot |-> sessions, written |-> {}]
    /\ joined' = [x \in SessionIds |-> IF joined[x] = "after" THEN "before"
                                                             ELSE joined[x]]
    /\ UNCHANGED <<phase, config, listener, initFetch, upstreams, upstream,
                   blockTemplate, failsCount, workDiff, timerIntv, pc, candidate,
                   backup, probes, switchLog, suT, suErr, writeArgs, fetching,
                   fetchRpc, handler, consecFails, fetchFails, lastStored, age,
                   workMu, track, sessions, sessionsMu>>

\* The copy is taken and the read lock released.
BroadcastSnapshot ==
    /\ bc.pc = "snapshot"
    /\ bc' = [pc |-> "write", snapshot |-> sessions, written |-> {}]
    /\ sessionsMu' = "free"
    /\ joined' = [x \in SessionIds |-> IF joined[x] = "after" THEN "before"
                                                             ELSE joined[x]]
    /\ UNCHANGED <<phase, config, listener, initFetch, upstreams, upstream,
                   blockTemplate, failsCount, workDiff, timerIntv, pc, candidate,
                   backup, probes, switchLog, suT, suErr, writeArgs, fetching,
                   fetchRpc, handler, consecFails, fetchFails, lastStored, age,
                   workMu, track, sessions>>

\* The write to one session of the copy returns.
BroadcastWrite(x) ==
    /\ bc.pc = "write"
    /\ x \in bc.snapshot \ bc.written
    /\ bc' = [bc EXCEPT !.written = bc.written \cup {x}]
    /\ UNCHANGED <<phase, config, listener, initFetch, upstreams, upstream,
                   blockTemplate, failsCount, workDiff, timerIntv, pc, candidate,
                   backup, probes, switchLog, suT, suErr, writeArgs, fetching,
                   fetchRpc, handler, consecFails, fetchFails, lastStored, age,
                   workMu, track, sessions, sessionsMu, joined>>

\* Every session of the copy has been written to.
BroadcastEnd ==
    /\ bc.pc = "write"
    /\ bc.written = bc.snapshot
    /\ bc' = NoBroadcast
    /\ UNCHANGED <<phase, config, listener, initFetch, upstreams, upstream,
                   blockTemplate, failsCount, workDiff, timerIntv, pc, candidate,
                   backup, probes, switchLog, suT, suErr, writeArgs, fetching,
                   fetchRpc, handler, consecFails, fetchFails, lastStored, age,
                   workMu, track, sessions, sessionsMu, joined>>

\* ----------------------------------------------------------- refresh loop

\* Variant: the refresh moves on to the next upstream before it fetches.
RefreshTickRotates ==
    /\ phase = "running"
    /\ pc["refresh"] = "wait"
    /\ pc' = [pc EXCEPT !["refresh"] = "fetch"]
    /\ upstream' = (upstream + 1) % Len(upstreams)
    /\ fetching' = [fetching EXCEPT ![0] = TRUE]
    /\ fetchRpc' = upstreams[upstream' + 1]
    /\ timerIntv' = [timerIntv EXCEPT !["refresh"] = ""]
    /\ UNCHANGED <<phase, config, listener, initFetch, upstreams, blockTemplate,
                   failsCount, workDiff, candidate, backup, probes,
                   switchLog, suT, suErr, writeArgs, handler, consecFails,
                   fetchFails, lastStored, age,
                   workMu, track, sessions, sessionsMu, bc, joined>>

\* Variant: the refresh timer is re-armed before the fetch, not after it.
RefreshTickRearms ==
    /\ phase = "running"
    /\ pc["refresh"] = "wait"
    /\ pc' = [pc EXCEPT !["refresh"] = "fetch"]
    /\ fetching' = [fetching EXCEPT ![0] = TRUE]
    /\ fetchRpc' = rpc
    /\ timerIntv' = [timerIntv EXCEPT !["refresh"] = "refreshIntv"]
    /\ UNCHANGED <<phase, config, listener, initFetch, upstreams, upstream,
                   blockTemplate, failsCount, workDiff, candidate, backup,
                   probes, switchLog, suT, suErr, writeArgs, handler, consecFails,
                   fetchFails, lastStored, age,
                   workMu, track, sessions, sessionsMu, bc, joined>>

\* Variant: the refresh loop goes through workMu before it fetches.
RefreshTickUnderLock ==
    /\ phase = "running"
    /\ pc["refresh"] = "wait"
    /\ workMu = "free"
    /\ pc' = [pc EXCEPT !["refresh"] = "fetch"]
    /\ fetching' = [fetching EXCEPT ![0] = TRUE]
    /\ fetchRpc' = rpc
    /\ timerIntv' = [timerIntv EXCEPT !["refresh"] = ""]
    /\ UNCHANGED <<phase, config, listener, initFetch, upstreams, upstream,
                   blockTemplate, failsCount, workDiff, candidate, backup,
                   probes, switchLog, suT, suErr, writeArgs, handler, consecFails,
                   fetchFails, lastStored, age,
                   workMu, track, sessions, sessionsMu, bc, joined>>

\* case <-refreshTimer.C: fetchBlockTemplate() starts on the active upstream.
RefreshTick ==
    /\ phase = "running"
    /\ pc["refresh"] = "wait"
    /\ pc' = [pc EXCEPT !["refresh"] = "fetch"]
    /\ fetching' = [fetching EXCEPT ![0] = TRUE]
    /\ fetchRpc' = rpc
    /\ timerIntv' = [timerIntv EXCEPT !["refresh"] = ""]
    /\ UNCHANGED <<phase, config, listener, initFetch, upstreams, upstream,
                   blockTemplate, failsCount, workDiff, candidate, backup,
                   probes, switchLog, suT, suErr, writeArgs, handler, consecFails,
                   fetchFails, lastStored, age,
                   workMu, track, sessions, sessionsMu, bc, joined>>

\* The fetch comes back, then refreshTimer.Reset(refreshIntv).
RefreshReturn(reply) ==
    /\ pc["refresh"] = "fetch"
    /\ FetchCanLand(reply)
    /\ FetchLands(reply)
    /\ fetching' = [fetching EXCEPT ![0] = FALSE]
    /\ pc' = [pc EXCEPT !["refresh"] = "wait"]
    /\ timerIntv' = [timerIntv EXCEPT !["refresh"] = "refreshIntv"]
    /\ UNCHANGED <<fetchRpc, phase, config, listener, initFetch, upstreams, upstream, workDiff,
                   candidate, backup, probes, switchLog, suT, suErr, writeArgs,
                   handler, age,
                   workMu, track, sessions, sessionsMu, bc, joined>>

\* ---------------------------------------------------- notification endpoint

\* The handler of Start() up to its first blocking call: http.Error for a method
\* other than POST, else fetchBlockTemplate() starts on the active upstream.
\* Variant: the method is not looked at.
MethodAlwaysAccepted(m) == TRUE

MethodAccepted(m) == m = "POST"

Rejection(m) ==
    [pc |-> "idle", method |-> m, status |-> 405,
     body |-> <<"rpc: POST method required, received ", m>>]

NotifyRequest(h, m) ==
    /\ phase = "running"
    /\ handler[h].pc = "idle"
    /\ IF ~MethodAccepted(m)
       THEN /\ handler' = [handler EXCEPT ![h] = Rejection(m)]
            /\ UNCHANGED <<fetching, fetchRpc>>
       ELSE /\ handler' = [handler EXCEPT ![h] =
                             [pc |-> "fetch", method |-> m, status |-> 0, body |-> <<>>]]
            /\ fetching' = [fetching EXCEPT ![h] = TRUE]
            /\ fetchRpc' = rpc
    /\ UNCHANGED <<phase, config, listener, initFetch, upstreams, upstream,
                   blockTemplate, failsCount, workDiff, timerIntv, pc, candidate,
                   backup, probes, switchLog, suT, suErr, writeArgs, consecFails,
                   fetchFails, lastStored, age,
                   workMu, track, sessions, sessionsMu, bc, joined>>

\* The handler's fetch comes back and the handler returns: status 200, no body.
NotifyReturn(h, reply) ==
    /\ handler[h].pc = "fetch"
    /\ FetchCanLand(reply)
    /\ FetchLands(reply)
    /\ fetching' = [fetching EXCEPT ![h] = FALSE]
    /\ handler' = [handler EXCEPT ![h] =
                     [pc |-> "idle", method |-> handler[h].method, status |-> 200,
                      body |-> <<>>]]
    /\ UNCHANGED <<fetchRpc, phase, config, listener, initFetch, upstreams, upstream, workDiff,
                   timerIntv, pc, candidate, backup, probes, switchLog, suT, suErr,
                   writeArgs, age,
                   workMu, track, sessions, sessionsMu, bc, joined>>

\* ------------------------------------------------------------- check loop

\* Variant: the sweep starts from the active index instead of 0.
CandidateFromActive == upstream

\* candidate := int32(0)
InitialCandidate == 0

\* Variant: the test of backup is missing, so the last healthy upstream wins.
SelectLastHealthy(cand, bk, i, ok) == IF ok THEN <<i, TRUE>> ELSE <<cand, bk>>

\* The body of the range loop for upstream i whose Check() returned ok:
\* <<candidate, backup>> after it.
Select(cand, bk, i, ok) == IF ok /\ ~bk THEN <<i, TRUE>> ELSE <<cand, bk>>

\* Variant: the loop is left at the first healthy upstream.
RangeOverAtFirstHealthy == backup \/ Len(probes) = Len(upstreams)

\* for i, v := range s.upstreams has been through the whole list; entry i of
\* probes is what Check() of the upstream with Go index i - 1 returned.
RangeOver == Len(probes) = Len(upstreams)

\* case <-checkTimer.C: checkUpstreams() is entered.
CheckTick ==
    /\ phase = "running"
    /\ pc["check"] = "wait"
    /\ pc' = [pc EXCEPT !["check"] = "probe"]
    /\ candidate' = InitialCandidate
    /\ backup' = FALSE
    /\ probes' = <<>>
    /\ switchLog' = ""
    /\ timerIntv' = [timerIntv EXCEPT !["check"] = ""]
    /\ UNCHANGED <<phase, config, listener, initFetch, upstreams, upstream,
                   blockTemplate, failsCount, workDiff, suT, suErr,
                   writeArgs, fetching, fetchRpc, handler, consecFails, fetchFails, lastStored,
                   age,
                   workMu, track, sessions, sessionsMu, bc, joined>>

\* One iteration of the range loop: v.Check() of the next upstream returns ok.
CheckProbe(ok) ==
    /\ pc["check"] = "probe"
    /\ ~RangeOver
    /\ candidate' = Select(candidate, backup, Len(probes), ok)[1]
    /\ backup' = Select(candidate, backup, Len(probes), ok)[2]
    /\ probes' = Append(probes, ok)
    /\ UNCHANGED <<phase, config, listener, initFetch, upstreams, upstream,
                   blockTemplate, failsCount, workDiff, timerIntv, pc, switchLog, suT,
                   suErr, writeArgs, fetching, fetchRpc, handler, consecFails, fetchFails,
                   lastStored, age,
                   workMu, track, sessions, sessionsMu, bc, joined>>

\* Variant: the switch forces a template fetch on the new upstream.
CheckFinishRefetch ==
    /\ pc["check"] = "probe"
    /\ RangeOver
    /\ IF upstream # candidate
       THEN /\ switchLog' = upstreams[candidate + 1]
            /\ upstream' = candidate
            /\ fetching' = [fetching EXCEPT ![0] = TRUE]
            /\ fetchRpc' = upstreams[candidate + 1]
       ELSE UNCHANGED <<switchLog, upstream, fetching, fetchRpc>>
    /\ pc' = [pc EXCEPT !["check"] = "wait"]
    /\ timerIntv' = [timerIntv EXCEPT !["check"] = "checkIntv"]
    /\ UNCHANGED <<phase, config, listener, initFetch, upstreams, blockTemplate,
                   failsCount, workDiff, candidate, backup, probes, suT, suErr,
                   writeArgs, handler, consecFails, fetchFails, lastStored, age,
                   workMu, track, sessions, sessionsMu, bc, joined>>

\* After the loop: the switch, then checkTimer.Reset(checkIntv).
CheckFinish ==
    /\ pc["check"] = "probe"
    /\ RangeOver
    /\ IF upstream # candidate
       THEN /\ switchLog' = upstreams[candidate + 1]
            /\ upstream' = candidate
       ELSE UNCHANGED <<switchLog, upstream>>
    /\ pc' = [pc EXCEPT !["check"] = "wait"]
    /\ timerIntv' = [timerIntv EXCEPT !["check"] = "checkIntv"]
    /\ UNCHANGED <<phase, config, listener, initFetch, upstreams, blockTemplate,
                   failsCount, workDiff, candidate, backup, probes, suT, suErr,
                   writeArgs, fetching, fetchRpc, handler, consecFails, fetchFails, lastStored,
                   age,
                   workMu, track, sessions, sessionsMu, bc, joined>>

\* ------------------------------------------------------ state-update loop

\* Variant: the difficulty is passed in the place of the height.
NodeStateArgsSwapped(t) ==
    [Name |-> config.Name, Height |-> t.Difficulty, Difficulty |-> t.Height]

\* backend.WriteNodeState(cfg.Name, t.Height, t.Difficulty)
NodeStateArgs(t) == [Name |-> config.Name, Height |-> t.Height, Difficulty |-> t.Difficulty]

\* Variant: the nil test is missing.
HasTemplateAlways(t) == TRUE

\* if t != nil
HasTemplate(t) == t # NoTemplate

\* case <-stateUpdateTimer.C: the tick is received.
StateUpdateTick ==
    /\ phase = "running"
    /\ pc["stateUpdate"] = "wait"
    /\ pc' = [pc EXCEPT !["stateUpdate"] = "load"]
    /\ timerIntv' = [timerIntv EXCEPT !["stateUpdate"] = ""]
    /\ UNCHANGED <<phase, config, listener, initFetch, upstreams, upstream,
                   blockTemplate, failsCount, workDiff, candidate, backup, probes,
                   switchLog, suT, suErr, writeArgs, fetching, fetchRpc, handler,
                   consecFails, fetchFails, lastStored, age,
                   workMu, track, sessions, sessionsMu, bc, joined>>

\* t := proxy.currentBlockTemplate(), one load of the cache: with a template
\* WriteNodeState is called, without one the timer is reset at once.
StateUpdateLoad ==
    /\ pc["stateUpdate"] = "load"
    /\ IF HasTemplate(currentBlockTemplate)
       THEN /\ suT' = currentBlockTemplate
            /\ writeArgs' = NodeStateArgs(currentBlockTemplate)
            /\ suErr' = "none"
            /\ pc' = [pc EXCEPT !["stateUpdate"] = "write"]
            /\ UNCHANGED timerIntv
       ELSE /\ suErr' = "skipped"
            /\ pc' = [pc EXCEPT !["stateUpdate"] = "wait"]
            /\ timerIntv' = [timerIntv EXCEPT !["stateUpdate"] = "stateUpdateIntv"]
            /\ UNCHANGED <<suT, writeArgs>>
    /\ UNCHANGED <<phase, config, listener, initFetch, upstreams, upstream,
                   blockTemplate, failsCount, workDiff, candidate, backup, probes,
                   switchLog, fetching, fetchRpc, handler, consecFails, fetchFails,
                   lastStored, age,
                   workMu, track, sessions, sessionsMu, bc, joined>>

\* WriteNodeState returns: markSick() on an error, markOk() otherwise, then
\* stateUpdateTimer.Reset(stateUpdateIntv).
StateUpdateReturn(err) ==
    /\ pc["stateUpdate"] = "write"
    /\ err => failsCount < MaxFailsCount
    /\ failsCount' = IF err THEN markSick(failsCount) ELSE markOk
    /\ consecFails' = IF err THEN consecFails + 1 ELSE 0
    /\ suErr' = IF err THEN "err" ELSE "ok"
    /\ suT' = NoTemplate
    /\ writeArgs' = NoArgs
    /\ pc' = [pc EXCEPT !["stateUpdate"] = "wait"]
    /\ timerIntv' = [timerIntv EXCEPT !["stateUpdate"] = "stateUpdateIntv"]
    /\ UNCHANGED <<phase, config, listener, initFetch, upstreams, upstream,
                   blockTemplate, workDiff, candidate, backup, probes, switchLog,
                   fetching, fetchRpc, handler, fetchFails, lastStored, age,
                   workMu, track, sessions, sessionsMu, bc, joined>>

\* ------------------------------------------------------------ specification

InitWith(cfgs) ==
    /\ phase = "new"
    /\ config \in cfgs
    /\ listener = "none"
    /\ initFetch = "none"
    /\ upstreams = <<>>
    /\ upstream = 0
    /\ blockTemplate = NoTemplate
    /\ failsCount = 0
    /\ workDiff = <<>>
    /\ timerIntv = [t \in Timers |-> ""]
    /\ pc = [t \in Timers |-> "none"]
    /\ candidate = 0
    /\ backup = FALSE
    /\ probes = <<>>
    /\ switchLog = ""
    /\ suT = NoTemplate
    /\ suErr = "none"
    /\ writeArgs = NoArgs
    /\ fetching = [p \in Fetchers |-> FALSE]
    /\ fetchRpc = ""
    /\ handler = [h \in Handlers |-> IdleHandler]
    /\ consecFails = 0
    /\ fetchFails = 0
    /\ lastStored = NoTemplate
    /\ age = [k \in Logins |-> -1]
    /\ workMu = "free"
    /\ track = [k \in Logins |-> NoMark]
    /\ sessions = {}
    /\ sessionsMu = "free"
    /\ bc = NoBroadcast
    /\ joined = [x \in SessionIds |-> "never"]

Init == InitWith(Configs)

Construct == \E reply \in Replies : NewProxy(reply)

CleanLoop ==
    \/ CleanTick
    \/ CleanLocked

WorkHolder ==
    \/ WorkLock
    \/ WorkUnlock

Registry ==
    \/ \E x \in SessionIds : RegisterSession(x)
    \/ \E x \in SessionIds : RemoveSession(x)

Broadcast ==
    \/ BroadcastBegin
    \/ BroadcastSnapshot
    \/ \E x \in SessionIds : BroadcastWrite(x)
    \/ BroadcastEnd

Sessions ==
    \/ \E k \in Logins, d \in DiffValues : SetDifficulty(k, d)
    \/ \E k \in Logins : MarkForDeletion(k)
    \/ \E k \in Logins : Reclaim(k)

RefreshLoop ==
    \/ RefreshTick
    \/ \E reply \in Replies : RefreshReturn(reply)

Notification ==
    \/ \E h \in Handlers, m \in Methods : NotifyRequest(h, m)
    \/ \E h \in Handlers, reply \in Replies : NotifyReturn(h, reply)

CheckLoop ==
    \/ CheckTick
    \/ \E ok \in BOOLEAN : CheckProbe(ok)
    \/ CheckFinish

StateUpdateLoop ==
    \/ StateUpdateTick
    \/ StateUpdateLoad
    \/ \E err \in BOOLEAN : StateUpdateReturn(err)

Next ==
    \/ Construct
    \/ CleanLoop
    \/ Sessions
    \/ WorkHolder
    \/ Registry
    \/ Broadcast
    \/ RefreshLoop
    \/ Notification
    \/ CheckLoop
    \/ StateUpdateLoop

Spec == Init /\ [][Next]_vars


\* Spec is the whole program.  Its parts that share no state are also given as
\* specifications of their own, small enough to enumerate in full.  A
\* configuration that passes the checks of NewProxy, with every number of
\* upstreams:
ServerConfigs ==
    {c \in Configs : /\ c.Name = "pool"
                     /\ c.Protocol = "EthereumStratum"
                     /\ c.StratumEnabled
                     /\ c.MinDiffFloat = MinDiffLimit
                     /\ c.NumUpstream > 0
                     /\ c.HealthCheck
                     /\ c.MaxFails = 2}

\* ... and with one upstream and every health-check setting:
HealthConfigs ==
    {c \in Configs : /\ c.Name = "pool"
                     /\ c.Protocol = "Stratum-Proxy"
                     /\ c.StratumEnabled
                     /\ c.MinDiffFloat = MinDiffLimit
                     /\ c.NumUpstream = 1}

\* Construction alone, over every configuration.
SpecStartup == Init /\ [][Construct]_vars

\* Upstream selection and the fetches that read the active index.
NextUpstream == Construct \/ CheckLoop \/ RefreshLoop \/ Notification

SpecUpstream == InitWith(ServerConfigs) /\ [][NextUpstream]_vars

\* The template cache and the failure counter with everything that writes them.
NextHealth == Construct \/ RefreshLoop \/ Notification \/ StateUpdateLoop

SpecHealth == InitWith(HealthConfigs) /\ [][NextHealth]_vars

\* The WorkDiff map with everything that writes it.
NextWorkDiff == Construct \/ CleanLoop \/ Sessions

SpecWorkDiff == InitWith(HealthConfigs) /\ [][NextWorkDiff]_vars

\* ... for one configuration, where the clean timer keeps firing and no one keeps
\* workMu: each step of the clean loop that can be taken is taken in the end.
PoolConfig == {c \in HealthConfigs : c.HealthCheck /\ c.MaxFails = 2}

SpecWorkDiffFair ==
    /\ InitWith(PoolConfig)
    /\ [][NextWorkDiff]_vars
    /\ WF_vars(CleanTick)
    /\ WF_vars(CleanLocked)

\* The running server: the four timer loops and the notification endpoint, with a
\* primary upstream alone or with one backup.  A request that is not a POST
\* changes the handler's own response and nothing else, so here every
\* notification is a POST.
PairConfigs == {c \in ServerConfigs : c.NumUpstream <= 2}

PostNotification ==
    \/ \E h \in Handlers : NotifyRequest(h, "POST")
    \/ \E h \in Handlers, reply \in Replies : NotifyReturn(h, reply)

NextServer ==
    \/ Construct
    \/ CleanLoop
    \/ RefreshLoop
    \/ CheckLoop
    \/ StateUpdateLoop
    \/ PostNotification

SpecServer == InitWith(PairConfigs) /\ [][NextServer]_vars

\* The session registry and the broadcast.
NextRegistry == Construct \/ Registry \/ Broadcast

SpecRegistry == InitWith(HealthConfigs) /\ [][NextRegistry]_vars

\* The four loops and another holder of workMu, for one configuration, with the
\* scheduling the runtime gives: a timer that is armed fires and its loop, blocked
\* on nothing but the timer's channel, takes the tick; and workMu.Lock() is
\* granted when the mutex is free again and again.  Nothing is assumed of the
\* calls a body makes (the fetch, Check(), WriteNodeState) nor of the other
\* holder of workMu: each may block for ever.
NextLive ==
    \/ Construct
    \/ CleanLoop
    \/ RefreshLoop
    \/ CheckLoop
    \/ StateUpdateLoop
    \/ WorkHolder

SpecLive ==
    /\ InitWith(PoolConfig)
    /\ [][NextLive]_vars
    /\ WF_vars(CleanTick)
    /\ WF_vars(RefreshTick)
    /\ WF_vars(CheckTick)
    /\ WF_vars(StateUpdateTick)
    /\ SF_vars(CleanLocked)


\* ------------------------------------------------------------------ claims

\* Go indices of the upstreams whose Check() returned true in the sweep ps.
Healthy(ps) == {i \in 0..(Len(ps) - 1) : ps[i + 1]}

LowestHealthy(ps) == CHOOSE i \in Healthy(ps) : \A j \in Healthy(ps) : i <= j

\* A sweep has run to its end and the next one has not begun.
SweepDone ==
    /\ phase = "running"
    /\ pc["check"] = "wait"
    /\ Len(probes) = Len(upstreams)

\* The step in which checkUpstreams() returns.
SweepFinishes == pc["check"] = "probe" /\ pc'["check"] = "wait"

\* C1: after a sweep in which some Check() returned true, the active index is the
\* lowest index whose Check() returned true in that sweep, whatever it was before.
C1_SweepSelectsFirstHealthy ==
    (SweepDone /\ Healthy(probes) # {}) => upstream = LowestHealthy(probes)

\* A and C healthy, B not, and the sweep switched back to A.
C1_Witness ==
    /\ SweepDone
    /\ probes = <<TRUE, FALSE, TRUE>>
    /\ switchLog = "A"
    /\ upstream = 0

C3_MarkedEntrySurvivesOneSweep ==
    \A k \in Logins : age[k] \in {0, 1} => k \in DOMAIN workDiff

\* Login 1 was marked and one sweep later is still there with PassDel cleared;
\* login 2 was marked and two sweeps later is gone.
C3_Witness ==
    /\ age[1] = 1
    /\ 1 \in DOMAIN workDiff
    /\ workDiff[1].IsDel
    /\ ~workDiff[1].PassDel
    /\ age[2] = 2
    /\ 2 \notin DOMAIN workDiff


\* The four conditions of C6, on the configuration itself.
FourConditions(c) ==
    /\ c.Name # ""
    /\ ~(c.Protocol = "EthereumStratum" /\ c.MinDiffFloat < MinDiffLimit)
    /\ c.StratumEnabled
    /\ c.Protocol \in {"Stratum-Proxy", "EthereumStratum"}

\* The running state: the first fetch is done and the four timer loops wait on
\* their armed timers.
Running ==
    /\ phase = "running"
    /\ initFetch # "none"
    /\ \A t \in Timers : pc[t] = "wait" /\ timerIntv[t] # ""

\* No fetch was made, no timer was created and no loop was started.
NothingStarted ==
    /\ initFetch = "none"
    /\ blockTemplate = NoTemplate
    /\ failsCount = 0
    /\ \A t \in Timers : pc[t] = "none" /\ timerIntv[t] = ""

C4_SickAfterTwoFailedFetches ==
    (config.HealthCheck /\ config.MaxFails = 2 /\ fetchFails >= 2) => isSick

\* C4 as the code has it (health check on, MaxFails = 2): the counter is shared
\* with the state-update loop, so it is two failures of either kind with no
\* success of either kind between them that make isSick() true, it stays true
\* until a fetch or a state write succeeds, and right after one it is false.
C4_SickAfterTwoFailuresOfEitherKind ==
    (config.HealthCheck /\ config.MaxFails = 2) =>
        /\ consecFails >= 2 => isSick
        /\ consecFails = 0 => ~isSick

\* Two fetches failed in a row while a template was cached, and the server is sick.
C4_Witness ==
    /\ config.HealthCheck
    /\ config.MaxFails = 2
    /\ blockTemplate # NoTemplate
    /\ fetchFails = 2
    /\ consecFails = 2
    /\ isSick

\* Handler h starts serving a request / starts a fetch / returns from its fetch.
Serves(h) == handler[h].pc = "idle" /\ handler'[h] # handler[h]

StartsFetch(p) == ~fetching[p] /\ fetching'[p]

\* C5: the handler starts a fetch exactly for POST.  Any other method is answered
\* 405 with a body naming it, starts no fetch and leaves cache and failure counter
\* alone; a POST starts one fetch at once, on the active upstream, and the handler
\* starts no other before it returns.
C5_FetchIffPost ==
    [][\A h \in Handlers :
        /\ (Serves(h) /\ handler'[h].method # "POST") =>
              /\ handler'[h].status = 405
              /\ handler'[h].body =
                     <<"rpc: POST method required, received ", handler'[h].method>>
              /\ handler'[h].pc = "idle"
              /\ fetching' = fetching
              /\ blockTemplate' = blockTemplate
              /\ failsCount' = failsCount
        /\ (Serves(h) /\ handler'[h].method = "POST") =>
              /\ StartsFetch(h)
              /\ fetchRpc' = rpc
              /\ \A p \in Fetchers \ {h} : fetching'[p] = fetching[p]
        /\ StartsFetch(h) => (Serves(h) /\ handler'[h].method = "POST")
        /\ handler'[h].pc = "fetch" <=> fetching'[h]]_vars

\* A GET was answered 405 naming GET and no fetch is running.
C5_Witness ==
    /\ handler[1].method = "GET"
    /\ handler[1].status = 405
    /\ handler[1].body = <<"rpc: POST method required, received ", "GET">>
    /\ \A p \in Fetchers : ~fetching[p]

\* A fetch of some fetcher comes back in this step.
FetchReturns == \E p \in Fetchers : fetching[p] /\ ~fetching'[p]

\* C7: currentBlockTemplate() is nil until a fetch has succeeded and then the whole
\* template of the successful fetch that landed last; the cache changes only when a
\* fetch succeeds, and a failure (the counter goes up) leaves it as it is.
C7_CacheHoldsLastSuccessfulFetch ==
    [][/\ currentBlockTemplate' = lastStored'
       /\ currentBlockTemplate' \in Templates \cup {NoTemplate}
       /\ blockTemplate' # blockTemplate =>
              /\ phase = "new" \/ FetchReturns
              /\ blockTemplate' \in Templates
              /\ failsCount' = 0
       /\ failsCount' = failsCount + 1 => blockTemplate' = blockTemplate
       /\ blockTemplate # NoTemplate => blockTemplate' # NoTemplate]_vars

\* A fetch stored a template, a later fetch failed and left it in the cache, and
\* a notification's fetch has come back; no fetch is running.
C7_Witness ==
    /\ currentBlockTemplate = [Height |-> 2, Difficulty |-> 20]
    /\ fetchFails = 1
    /\ handler[1].status = 200
    /\ \A p \in Fetchers : ~fetching[p]

\* C8: a state-update tick that finds a template calls WriteNodeState with the
\* instance name and the height and difficulty of that one template; when the call
\* returns an error the failure counter goes up by 1, otherwise it is set to 0.
C8_StateUpdateWritesCachedTemplate ==
    [][/\ (pc["stateUpdate"] = "load" /\ pc'["stateUpdate"] = "write") =>
              /\ blockTemplate \in Templates
              /\ writeArgs' = [Name |-> config.Name,
                               Height |-> blockTemplate.Height,
                               Difficulty |-> blockTemplate.Difficulty]
       /\ (pc["stateUpdate"] = "write" /\ pc'["stateUpdate"] = "wait") =>
              \/ suErr' = "err" /\ failsCount' = failsCount + 1
              \/ suErr' = "ok" /\ failsCount' = 0
       /\ pc'["stateUpdate"] = "write" =>
              \E t \in Templates :
                  writeArgs' = [Name |-> config.Name, Height |-> t.Height,
                                Difficulty |-> t.Difficulty]]_vars

\* WriteNodeState is under way with the template read at the tick, which a fetch
\* has replaced in the cache since.
C8_Witness ==
    /\ pc["stateUpdate"] = "write"
    /\ writeArgs = [Name |-> "pool", Height |-> 2, Difficulty |-> 20]
    /\ blockTemplate = [Height |-> 1, Difficulty |-> 10]
    /\ failsCount = 0

\* C9 as stated: a sweep that changes the active index starts a fetch on the new
\* active upstream in the same step.
C9_FailoverForcesFetch ==
    [][upstream' # upstream =>
          /\ \E p \in Fetchers : StartsFetch(p)
          /\ fetchRpc' = upstreams[upstream' + 1]]_vars

\* C9 as the code has it: a sweep that changes the active index starts no fetch
\* and leaves cache and failure counter alone; a fetch starts only on a refresh
\* tick or a POST, and runs on the upstream that is active then.
C9_FailoverStartsNoFetch ==
    [][/\ upstream' # upstream =>
              /\ fetching' = fetching
              /\ fetchRpc' = fetchRpc
              /\ blockTemplate' = blockTemplate
              /\ failsCount' = failsCount
       /\ \A p \in Fetchers : StartsFetch(p) =>
              /\ upstream' = upstream
              /\ fetchRpc' = upstreams[upstream + 1]
              /\ IF p = 0 THEN pc["refresh"] = "wait"
                          ELSE handler'[p].method = "POST"]_vars

\* The sweep has switched from A to B; no fetch runs and the last one ran on A.
C9_Witness ==
    /\ SweepDone
    /\ switchLog = "B"
    /\ upstream = 1
    /\ fetchRpc = "A"
    /\ \A p \in Fetchers : ~fetching[p]

\* C10: with a non-empty upstream list the active index is a valid index of it, it
\* is 0 right after construction, the list never changes once built, and only the
\* end of a sweep changes the index.
C10_IndexValidAndOnlySweepMoves ==
    [][/\ phase' = "running" =>
              /\ upstream' \in 0..(Len(upstreams') - 1)
              /\ Len(upstreams') = config.NumUpstream
       /\ (phase = "new" /\ phase' = "running") => upstream' = 0
       /\ phase = "running" => upstreams' = upstreams
       /\ upstream' # upstream => SweepFinishes]_vars

\* The backup is active while a fetch, a cleanup sweep, a state write and a
\* notification have all run.
C10_Witness ==
    /\ phase = "running"
    /\ upstream = 1
    /\ timerIntv["clean"] = "refreshIntv"
    /\ suErr = "ok"
    /\ handler[1].status = 200
    /\ fetchRpc = "B"


\* C11: a loop's body runs only between a tick it received and the Reset that
\* follows the body: while a body is in progress the loop's timer is not armed, so
\* no further tick of it can come; a tick is taken only by a waiting loop whose
\* timer is armed, and a timer is armed again only in the step that ends the body.
C11_OneBodyAtATime ==
    [][\A t \in Timers :
        /\ pc'[t] \notin {"none", "wait"} => timerIntv'[t] = ""
        /\ (pc[t] = "wait" /\ pc'[t] # "wait") =>
               timerIntv[t] # "" /\ timerIntv'[t] = ""
        /\ (timerIntv[t] = "" /\ timerIntv'[t] # "") => pc'[t] = "wait"
        /\ (pc[t] \notin {"none", "wait"} /\ pc'[t] = "wait") =>
               timerIntv'[t] # ""]_vars

\* The four bodies are in progress at once, one of each, and no timer is armed.
C11_Witness ==
    /\ pc = [t \in Timers |->
                CASE t = "clean" -> "lock"
                  [] t = "refresh" -> "fetch"
                  [] t = "check" -> "probe"
                  [] OTHER -> "write"]
    /\ \A t \in Timers : timerIntv[t] = ""


\* C12: the broadcast holds the registry's lock only while it takes its copy: while
\* it writes to the sessions of the copy (each write may block) the lock is free,
\* so a session that never connected can be added and a registered one removed;
\* and it writes to sessions of the copy only, never to one added after the copy
\* was taken.
C12_BroadcastHoldsLockForSnapshotOnly ==
    /\ bc.pc = "write" => sessionsMu = "free"
    /\ sessionsMu = "read" <=> bc.pc = "snapshot"
    /\ bc.written \subseteq bc.snapshot
    /\ \A x \in SessionIds :
          /\ joined[x] = "after" => x \notin bc.snapshot /\ x \notin bc.written
          /\ (bc.pc = "write" /\ joined[x] = "never") => ENABLED RegisterSession(x)
          /\ (bc.pc = "write" /\ x \in sessions) => ENABLED RemoveSession(x)

\* While the broadcast waits on its write to session 1, session 1 was removed and
\* session 2 added: 2 is registered and the broadcast does not write to it.
C12_Witness ==
    /\ bc = [pc |-> "write", snapshot |-> {1}, written |-> {}]
    /\ sessions = {2}
    /\ joined[2] = "after"


\* C13: isSick() is true exactly when the health check is enabled and the failure
\* counter has reached MaxFails: with the health check disabled it is false
\* whatever the counter, and with it enabled and MaxFails at or below 0 it is true
\* from the start, with no failure at all.
C13_SickIffEnabledAndAtThreshold ==
    /\ isSick <=> (config.HealthCheck /\ failsCount >= config.MaxFails)
    /\ ~config.HealthCheck => ~isSick
    /\ (config.HealthCheck /\ config.MaxFails <= 0) => isSick
    /\ (config.HealthCheck /\ config.MaxFails > 0 /\ failsCount = 0) => ~isSick

\* The health check is disabled, three failures in a row are over the threshold
\* of 2, and the server is not sick.
C13_Witness ==
    /\ phase = "running"
    /\ ~config.HealthCheck
    /\ config.MaxFails = 2
    /\ failsCount = 3
    /\ ~isSick


\* C14: the one failure counter is written by fetches and by state writes alike;
\* it is never negative and is the number of failures of either kind since the
\* last success of either kind, or since the start when there was none.
C14_CounterCountsFailuresSinceSuccess ==
    /\ failsCount >= 0
    /\ failsCount = consecFails

\* A failed fetch and a failed state write, with no success between, count 2.
C14_Witness ==
    /\ fetchFails = 1
    /\ suErr = "err"
    /\ failsCount = 2


\* C15: while no template is cached no state write is under way, and a
\* state-update tick that finds none writes nothing: the step that loads the
\* cache leaves the failure counter, the cache, the active index and the other
\* loops as they are, and puts the loop back at its timer, armed with the
\* state-update interval.
C15_NoTemplateNoWrite ==
    [][/\ blockTemplate' = NoTemplate =>
              /\ pc'["stateUpdate"] # "write"
              /\ writeArgs' = NoArgs
       /\ pc'["stateUpdate"] = "write" => pc["stateUpdate"] \in {"load", "write"}
       /\ (pc["stateUpdate"] = "load" /\ pc'["stateUpdate"] = "write") =>
              blockTemplate # NoTemplate
       /\ (pc["stateUpdate"] = "load" /\ pc'["stateUpdate"] = "wait") =>
              /\ blockTemplate = NoTemplate
              /\ suErr' = "skipped"
              /\ blockTemplate' = blockTemplate
              /\ failsCount' = failsCount
              /\ upstream' = upstream
              /\ writeArgs' = NoArgs
              /\ fetching' = fetching
              /\ workDiff' = workDiff
              /\ \A t \in Timers \ {"stateUpdate"} : pc'[t] = pc[t]
              /\ timerIntv'["stateUpdate"] = "stateUpdateIntv"]_vars

\* No fetch has succeeded, two have failed, the backup is active, and the last
\* state-update tick wrote nothing and left the loop at its armed timer.
C15_Witness ==
    /\ suErr = "skipped"
    /\ blockTemplate = NoTemplate
    /\ failsCount = 2
    /\ upstream = 1
    /\ pc["stateUpdate"] = "wait"
    /\ timerIntv["stateUpdate"] = "stateUpdateIntv"


\* The step in which the clean loop runs its sweep.
CleanSweeps == pc["clean"] = "lock" /\ pc'["clean"] = "wait"

\* C16: a cleanup sweep adds no entry, leaves every entry whose IsDel is clear as
\* it is, and changes no Difficulty and no IsDel; of an entry whose IsDel is set it
\* deletes the one whose PassDel is clear and clears the PassDel of the other,
\* nothing else.
C16_SweepTouchesOnlyMarked ==
    [][CleanSweeps =>
          /\ DOMAIN workDiff' \subseteq DOMAIN workDiff
          /\ \A k \in DOMAIN workDiff :
                /\ ~workDiff[k].IsDel =>
                       k \in DOMAIN workDiff' /\ workDiff'[k] = workDiff[k]
                /\ (workDiff[k].IsDel /\ ~workDiff[k].PassDel) =>
                       k \notin DOMAIN workDiff'
                /\ (workDiff[k].IsDel /\ workDiff[k].PassDel) =>
                       /\ k \in DOMAIN workDiff'
                       /\ workDiff'[k] = [workDiff[k] EXCEPT !.PassDel = FALSE]
                /\ k \in DOMAIN workDiff' =>
                       /\ workDiff'[k].Difficulty = workDiff[k].Difficulty
                       /\ workDiff'[k].IsDel = workDiff[k].IsDel]_vars

\* A sweep has run over a marked entry and one that was never marked: the first
\* has lost its PassDel only, the second is as it was set.
C16_Witness ==
    /\ pc["clean"] = "wait"
    /\ timerIntv["clean"] = "refreshIntv"
    /\ age = <<1, -1>>
    /\ workDiff = <<[Difficulty |-> 4, PassDel |-> FALSE, IsDel |-> TRUE],
                    [Difficulty |-> 8, PassDel |-> FALSE, IsDel |-> FALSE]>>


\* C17: an entry that is marked for deletion and not touched again is still there
\* after the first sweep, with PassDel clear, IsDel set and the Difficulty it was
\* marked with, and is gone after the second; and with the clean loop firing again
\* and again a marking waits for ever neither for its first sweep nor, once swept,
\* for its deletion: it leaves each stage, by the sweep or because a session
\* touches the entry.  track follows a marking until a session touches the entry.
C17_MarkedEntryGoesAtSecondSweep ==
    /\ [](\A k \in Logins :
            /\ track[k].sweeps = 0 =>
                   /\ k \in DOMAIN workDiff
                   /\ workDiff[k] = [Difficulty |-> track[k].Difficulty,
                                     PassDel |-> TRUE, IsDel |-> TRUE]
            /\ track[k].sweeps = 1 =>
                   /\ k \in DOMAIN workDiff
                   /\ workDiff[k] = [Difficulty |-> track[k].Difficulty,
                                     PassDel |-> FALSE, IsDel |-> TRUE]
            /\ track[k].sweeps = 2 => k \notin DOMAIN workDiff)
    /\ \A k \in Logins :
          /\ (track[k].sweeps = 0) ~> (track[k].sweeps # 0)
          /\ (track[k].sweeps = 1) ~> (track[k].sweeps # 1)

\* Login 1 was marked with difficulty 8 and two sweeps later is gone, untouched;
\* login 2 was marked with difficulty 4 and has been through one sweep.
C17_Witness ==
    /\ track[1] = [sweeps |-> 2, Difficulty |-> 8]
    /\ 1 \notin DOMAIN workDiff
    /\ track[2] = [sweeps |-> 1, Difficulty |-> 4]
    /\ 2 \in DOMAIN workDiff


\* The step in which the sweep calls Check() of one more upstream.
SweepProbes == pc["check"] = "probe" /\ probes' # probes

\* C18: a sweep calls Check() once on each upstream, in the order of the list, and
\* goes on after the first healthy one: it returns only when every upstream has
\* been asked, and an answer that comes after a healthy one changes neither the
\* candidate nor backup.
C18_SweepProbesEveryUpstream ==
    [][/\ (pc["check"] = "wait" /\ pc'["check"] = "probe") => probes' = <<>>
       /\ SweepProbes =>
              /\ Len(probes) < Len(upstreams)
              /\ Len(probes') = Len(probes) + 1
              /\ SubSeq(probes', 1, Len(probes)) = probes
              /\ pc'["check"] = "probe"
              /\ backup => (backup' /\ candidate' = candidate)
              /\ ~backup =>
                     IF probes'[Len(probes')]
                     THEN backup' /\ candidate' = Len(probes)
                     ELSE ~backup' /\ candidate' = candidate
       /\ SweepFinishes =>
              /\ Len(probes) = Len(upstreams)
              /\ probes' = probes]_vars

\* A was down and B up; C, asked after B, was up too and changed nothing.
C18_Witness ==
    /\ SweepDone
    /\ probes = <<FALSE, TRUE, TRUE>>
    /\ candidate = 1
    /\ upstream = 1


\* C19: no loop waits for another.  Whatever the other three do, one that never
\* returns from its body included, a loop that is at its timer gets its next tick
\* and enters its body again; and the sweep, once the clean loop has its tick, is
\* held up by nothing but workMu: it runs in the end when workMu is free again and
\* again.
C19_LoopsFireIndependently ==
    /\ \A t \in Timers : (pc[t] = "wait") ~> (pc[t] # "wait")
    /\ ([]<>(workMu = "free")) => ((pc["clean"] = "lock") ~> (pc["clean"] = "wait"))

\* The clean loop waits for workMu, which a session holds, and Check() of the
\* first upstream has not returned; meanwhile a fetch has stored a template and a
\* state write has succeeded, and the refresh loop is in its next fetch.
C19_Witness ==
    /\ workMu = "session"
    /\ pc["clean"] = "lock"
    /\ pc["check"] = "probe"
    /\ probes = <<>>
    /\ pc["refresh"] = "fetch"
    /\ lastStored = [Height |-> 2, Difficulty |-> 20]
    /\ suErr = "ok"


\* C20: NewProxy arms the clean timer with the clean interval and the three others
\* with their own; every sweep re-arms the clean timer with the block-refresh
\* interval, and the refresh, check and state-update loops re-arm their timers
\* with their own intervals.
C20_CleanTimerTakesRefreshInterval ==
    [][/\ (phase = "new" /\ phase' = "running") =>
              /\ timerIntv'["clean"] = "cleanIntv"
              /\ timerIntv'["refresh"] = "refreshIntv"
              /\ timerIntv'["check"] = "checkIntv"
              /\ timerIntv'["stateUpdate"] = "stateUpdateIntv"
       /\ CleanSweeps => timerIntv'["clean"] = "refreshIntv"
       /\ (phase = "running" /\ timerIntv'["clean"] # timerIntv["clean"]) =>
              timerIntv'["clean"] \in {"", "refreshIntv"}
       /\ timerIntv'["refresh"] \in {"", "refreshIntv"}
       /\ timerIntv'["check"] \in {"", "checkIntv"}
       /\ timerIntv'["stateUpdate"] \in {"", "stateUpdateIntv"}
       /\ \A t \in Timers \ {"clean"} :
              (pc[t] \notin {"none", "wait"} /\ pc'[t] = "wait") =>
                  timerIntv'[t] # ""]_vars

\* Every loop has run its body once or more: the clean timer is armed with the
\* refresh interval, each of the others with its own.
C20_Witness ==
    /\ timerIntv["clean"] = "refreshIntv"
    /\ timerIntv["refresh"] = "refreshIntv"
    /\ timerIntv["check"] = "checkIntv"
    /\ timerIntv["stateUpdate"] = "stateUpdateIntv"
    /\ fetchFails = 1
    /\ Len(probes) = Len(upstreams)
    /\ suErr = "err"

====
